---- MODULE Spec2Model ----
(***************************************************************************)
(* ImageDataDeserializer (Source/Readers/ImageReader): the index build     *)
(* over a mapping file (CreateSequenceDescriptions, RegisterByteReader),   *)
(* and the operations served from the built tables (GetChunk, GetSequence, *)
(* GetSequencesForChunk, GetChunkDescriptions, ReadImage,                  *)
(* GetSequenceDescriptionByKey).                                           *)
(*                                                                         *)
(* Strings are sequences of one-character strings, so that find_first_of,  *)
(* substr, replace, strtoull and to_string are computed character by       *)
(* character.  A line of the mapping file is the sequence of its           *)
(* tab-separated fields, as the std::getline(ss, x, '\t') calls see them.  *)
(***************************************************************************)
EXTENDS Integers, Sequences, FiniteSets, TLC

\* ------------------------------------------------------------ bounds
\* Longest mapping file of the specification Spec, in lines.
MaxLines == 2
\* The label dimension (labelDim) of the model's configurations.
LabelDim == 2
\* SpecBulk stops reading lines once this many sequence ids were generated.
MaxBulkIds == 600
\* The largest chunk id of the builds of SpecConfig, which are compiled with
\* a narrow ChunkIdType so that a mapping file can use the id space up.
SmallChunkIdMax == 25
\* SpecWorkers reads its mapping file until this many ids were generated:
\* enough for a second chunk.
WorkIds == 522
\* The mapping file of SpecOwn, in lines.
OwnLines == 3
\* The mapping file of SpecThreads, in lines.
ThreadLines == 4
\* The most entries a caller lets its result vector hold.
MaxResultItems == 4

\* ------------------------------------------------- program constants
\* "if (currentChunk->m_numberOfSamples > 511)"
ChunkSampleLimit == 511
\* "size_t itemsPerLine = isMultiCrop ? 10 : 1;"
MultiViewItems == 10
\* CHUNKID_MAX, the largest value of ChunkIdType.  The header defining it is
\* not part of the sources at hand; TLC's integers end at 2^31 - 1, and no
\* run of this model generates that many ids.
CHUNKID_MAX == 2147483647
\* numeric_limits<IndexType>::max().  The header defining IndexType is not
\* part of the sources at hand; the value leaves room for one label
\* dimension beyond it within TLC's integers.
IndexTypeMax == 2147483646

\* ------------------------------------------------------------ strings
Digits == <<"0", "1", "2", "3", "4", "5", "6", "7", "8", "9">>

IsDigit(c) == \E d \in 1..10 : Digits[d] = c

DigitValue(c) == (CHOOSE d \in 1..10 : Digits[d] = c) - 1

\* std::to_string(lineIndex)
RECURSIVE to_string(_)
to_string(n) ==
    IF n < 10 THEN <<Digits[n + 1]>>
    ELSE to_string(n \div 10) \o <<Digits[(n % 10) + 1]>>

\* The number of leading decimal digits of s: where strtoull stops (eptr).
RECURSIVE DigitPrefixLen(_)
DigitPrefixLen(s) ==
    IF s = <<>> \/ ~IsDigit(Head(s)) THEN 0
    ELSE 1 + DigitPrefixLen(Tail(s))

RECURSIVE DecimalValue(_)
DecimalValue(s) ==
    IF s = <<>> THEN 0
    ELSE 10 * DecimalValue(SubSeq(s, 1, Len(s) - 1)) + DigitValue(s[Len(s)])

\* strtoull(classId.c_str(), &eptr, 10): the value of the longest prefix of
\* decimal digits and the number of characters consumed.  The strings of the
\* model hold no white space and no sign, and are too short to overflow 64
\* bits, so errno is never ERANGE.
StrToULL(s) ==
    LET n == DigitPrefixLen(s)
    IN  [value |-> DecimalValue(SubSeq(s, 1, n)), eptr |-> n, erange |-> FALSE]

\* path.find_first_of(ch): the 1-based position of the first ch, 0 for npos.
FindFirstOf(path, ch) ==
    IF \E i \in 1..Len(path) : path[i] = ch
    THEN CHOOSE i \in 1..Len(path) :
             path[i] = ch /\ \A j \in 1..(i - 1) : path[j] # ch
    ELSE 0

\* An item path left as it is written.
KeepBackslash(s) == s

\* std::replace(begin(itemPath), end(itemPath), '\\', '/')
ReplaceBackslash(s) == [i \in 1..Len(s) |-> IF s[i] = "\\" THEN "/" ELSE s[i]]

\* path.substr(0, atPos), atPos being the 1-based position of '@'.
ContainerPathOf(path, atPos) == SubSeq(path, 1, atPos - 1)

\* path.substr(atPos + 2) with the separators replaced: the '@' and the one
\* character after it are skipped ("skip @ symbol and path separator").
ItemPathOf(path, atPos) == ReplaceBackslash(SubSeq(path, atPos + 2, Len(path)))

\* ------------------------------------------------------------- maps
\* m[k] = v of a std::map held as a function.
Put(m, k, v) == [x \in (DOMAIN m) \cup {k} |-> IF x = k THEN v ELSE m[x]]

EmptyMap == [x \in {} |-> 0]


\* ------------------------------------------------- mapping-file lines
K1 == <<"k", "1">>
K2 == <<"k", "2">>
KX == <<"k", "x">>
KOne == <<"1">>

\* A loose image file, and entries of the containers z and y.
PFile == <<"i">>
PZipFwd == <<"z", "@", "/", "s", "/", "i">>
PZipBack == <<"z", "@", "\\", "s", "\\", "i">>
PZipNoSep == <<"z", "@", "s", "/", "i">>
PZip2 == <<"y", "@", "/", "i">>
\* Loose files: bytes that are no image, and images of 16-bit, 32-bit float
\* and 64-bit float pixels.
PCorrupt == <<"c">>
PDeep == <<"h">>
PFloat == <<"f">>
PDouble == <<"d">>

\* The lines a mapping file of Spec is made of: key, path, class id, or (the
\* old format) path, class id.
MapLines ==
    { <<K1, PFile, <<"0">>>>,
      <<K1, PZipFwd, <<"1">>>>,
      <<K2, PZipBack, <<"0">>>>,
      <<KOne, PFile, <<"0">>>>,
      <<KX, PFile, <<"x">>>>,
      <<PZipNoSep, <<"1">>>>,
      <<PZip2, <<"0">>>>,
      <<PFile, <<"2">>>>,
      <<PFile, <<"3">>>>,
      <<PFile, <<"1", "x">>>>,
      <<PFile>> }

\* Line n of the long mapping file of SpecBulk.
BulkLine(n) ==
    CASE n % 4 = 0 -> <<PFile, <<"0">>>>
      [] n % 4 = 1 -> <<PZipFwd, <<"1">>>>
      [] n % 4 = 2 -> <<KX, PFile, <<"1">>>>
      [] OTHER     -> <<K1, PZip2, <<"0">>>>

\* Line n of the mapping file of SpecConfig: images of every kind, then lines
\* of the key the corpus leaves out, then lines without a key.
ConfigLine(n) ==
    CASE n = 0 -> <<PFile, <<"0">>>>
      [] n = 1 -> <<K1, PCorrupt, <<"1">>>>
      [] n = 2 -> <<K1, PDeep, <<"0">>>>
      [] n = 3 -> <<K2, PFloat, <<"1">>>>
      [] n = 4 -> <<K2, PDouble, <<"0">>>>
      [] n = 5 -> <<PFile, <<"1">>>>
      [] n = 6 -> <<KX, PZip2, <<"0">>>>
      [] n = 7 -> <<KX, PFile, <<"x">>>>
      [] n = 8 -> <<KX, PFile, <<"9">>>>
      [] OTHER -> <<PFile, <<"0">>>>

\* --------------------------------------------------------- the corpus
\* The keys the corpus handed to the compositional constructor leaves out.
ExcludedKeys == {KX, KOne}

\* corpus->IsIncluded(sequenceKey).  The old constructor builds its own
\* CorpusDescriptor, which includes every key.
IsIncluded(ctorKind, sequenceKey) ==
    ctorKind = "legacy" \/ sequenceKey \notin ExcludedKeys

\* stringRegistry[sequenceKey]: the id of an interned key is the number of
\* keys interned before it.
RegistryIntern(reg, key) ==
    IF \E i \in 1..Len(reg) : reg[i] = key THEN reg ELSE Append(reg, key)

RegistryId(reg, key) == (CHOOSE i \in 1..Len(reg) : reg[i] = key) - 1

\* ------------------------------------------------------------- state
VARIABLES
    ctor,                 \* which constructor runs: "compositional" | "legacy"
    isMultiCrop,          \* multiViewCrop
    useZip,               \* built with USE_ZIP
    labelDimension,
    precision,            \* config("precision", "float")
    chunkIdMax,           \* numeric_limits<ChunkIdType>::max() of the build
    m_labelElementType,
    m_featureElementType,
    pc,                   \* "ctor" | "build" | "done" | "failed"
    error,                \* the kind of the RuntimeError that ended the build
    mapFile,              \* the lines read so far
    lineIndex,
    curId,
    currentChunkId,
    currentChunk,
    m_chunks,
    m_imageSequences,
    m_keyToSequence,
    m_readers,            \* sequence id -> container handle
    knownReaders,         \* container path -> container handle
    readerSequences,      \* container path -> (item path -> sequence id)
    handles,              \* handles[h]: the container path ZipByteReader h opened
    registered,           \* the Register calls made: <<handle, item map>>
    stringRegistry,
    heldChunk,            \* the ImageChunk a caller holds
    last,                 \* what the last operation on the built object returned
    chunkObjects,         \* worker -> the ImageChunk its GetChunk made
    chunkPtr,             \* worker -> it still holds the ChunkPtr it was returned
    results,              \* worker -> its vector of SequenceDataPtr
    lastCall              \* worker -> its last call and how it ended

cfgVars == <<ctor, isMultiCrop, useZip, labelDimension, precision, chunkIdMax,
             m_labelElementType, m_featureElementType>>

buildVars == <<pc, error, mapFile, lineIndex, curId, currentChunkId, currentChunk,
               m_chunks, m_imageSequences, m_keyToSequence, m_readers,
               knownReaders, readerSequences, handles, registered,
               stringRegistry>>

workerVars == <<chunkObjects, chunkPtr, results, lastCall>>

runVars == <<heldChunk, last, workerVars>>

vars == <<cfgVars, buildVars, runVars>>

\* The configurations of the model: the constructor that runs and the
\* precision it is configured with.
CtorConfigs ==
    { [ctor |-> "compositional", precision |-> "float"],
      [ctor |-> "legacy", precision |-> "double"] }

NoError == "none"
NoChunk == [m_id |-> -1, m_data |-> <<>>]
Nothing == [op |-> "none"]

\* The worker threads that use the built object.
Workers == {"w1", "w2"}

\* No ImageChunk: none made yet, or the last shared_ptr to it is gone and it
\* was destroyed.
NoObject == [m_id |-> -1, m_data |-> <<>>, reads |-> <<>>, refs |-> 0]

\* std::make_shared<ImageChunkDescription>(): value-initialized.
NewChunkDescription ==
    [m_id |-> 0, m_numberOfSamples |-> 0, m_numberOfSequences |-> 0,
     m_startIndex |-> 0]

\* The values of ElementType the source names.
ElementTypes == {"tfloat", "tdouble", "tuchar", "tend"}

\* The precisions a configuration may ask for.
Precisions == {"float", "double", "half"}

\* The element type ImageConfigHelper gives the streams of the old
\* constructor: that of the configured precision, and none it supports for
\* any other precision.
HelperElementType(p) ==
    CASE p = "float" -> "tfloat"
      [] p = "double" -> "tdouble"
      [] OTHER -> "tend"

\* "labels->m_elementType = AreEqualIgnoreCase(precision, "float") ?
\*  ElementType::tfloat : ElementType::tdouble;"
CompositionalLabelType(p) == IF p = "float" THEN "tfloat" ELSE "tdouble"

\* The constructor of TypedLabelGenerator throws for a label dimension beyond
\* IndexType.
LabelGeneratorThrows(dimension) == dimension > IndexTypeMax

\* The old constructor, up to its call of CreateSequenceDescriptions.
\* m_labelElementType is assigned nowhere in it: the member keeps whatever
\* its storage held, any value of ElementTypes.
LegacyConstructed(p, dimension) ==
    LET labelType == HelperElementType(p)
    IN  [ok |-> labelType \in {"tfloat", "tdouble"}
                /\ ~LabelGeneratorThrows(dimension),
         m_featureElementType |-> HelperElementType(p),
         labelTypes |-> ElementTypes]

\* The compositional constructor, up to its call of
\* CreateSequenceDescriptions.
CompositionalConstructed(p, dimension) ==
    [ok |-> ~LabelGeneratorThrows(dimension),
     m_featureElementType |-> "tend",
     labelTypes |-> {CompositionalLabelType(p)}]

Constructed(kind, p, dimension) ==
    IF kind = "legacy" THEN LegacyConstructed(p, dimension)
    ELSE CompositionalConstructed(p, dimension)

\* Nothing is read, indexed or held yet.
EmptyTables ==
    /\ error = NoError
    /\ mapFile = <<>>
    /\ lineIndex = 0
    /\ curId = 0
    /\ currentChunkId = 0
    /\ currentChunk = NewChunkDescription
    /\ m_chunks = <<>>
    /\ m_imageSequences = <<>>
    /\ m_keyToSequence = EmptyMap
    /\ m_readers = EmptyMap
    /\ knownReaders = EmptyMap
    /\ readerSequences = EmptyMap
    /\ handles = <<>>
    /\ registered = <<>>
    /\ stringRegistry = <<>>
    /\ heldChunk = NoChunk
    /\ last = Nothing
    /\ chunkObjects = [w \in Workers |-> NoObject]
    /\ chunkPtr = [w \in Workers |-> FALSE]
    /\ results = [w \in Workers |-> <<>>]
    /\ lastCall = [w \in Workers |-> Nothing]

\* The label element types Spec and SpecBulk follow: for the old constructor
\* two of the values its unassigned member may hold, the configured one among
\* them.  SpecConfig follows all of them.
InitLabelTypes == {"tfloat", "tdouble"}

\* The state at the call of CreateSequenceDescriptions, for every
\* configuration of the model.
Init ==
    /\ \E cfg \in CtorConfigs :
         LET c == Constructed(cfg.ctor, cfg.precision, LabelDim)
         IN  /\ ctor = cfg.ctor
             /\ precision = cfg.precision
             /\ m_labelElementType \in c.labelTypes \cap InitLabelTypes
             /\ m_featureElementType = c.m_featureElementType
    /\ chunkIdMax = CHUNKID_MAX
    /\ isMultiCrop \in BOOLEAN
    /\ useZip \in BOOLEAN
    /\ labelDimension = LabelDim
    /\ pc = "build"
    /\ EmptyTables


\* --------------------------------------------------- the index build
\* The working state of CreateSequenceDescriptions, as one record.
BuildState ==
    [pc |-> pc, error |-> error, lineIndex |-> lineIndex, curId |-> curId,
     currentChunkId |-> currentChunkId, currentChunk |-> currentChunk,
     m_chunks |-> m_chunks, m_imageSequences |-> m_imageSequences,
     m_keyToSequence |-> m_keyToSequence, m_readers |-> m_readers,
     knownReaders |-> knownReaders, readerSequences |-> readerSequences,
     handles |-> handles, stringRegistry |-> stringRegistry]

\* RuntimeError(...): the constructor throws, no object is built.
Throw(b, kind) == [b EXCEPT !.pc = "failed", !.error = kind]

\* The three std::getline(ss, x, '\t') of a line and the fallback to the old
\* two-column format.  A getline fails once the fields are used up and leaves
\* its string empty.
ParseLine(line, index) ==
    LET field(i) == IF i <= Len(line) THEN line[i] ELSE <<>>
    IN  IF Len(line) >= 3
        THEN [ok |-> TRUE, sequenceKey |-> field(1), imagePath |-> field(2),
              classId |-> field(3)]
        ELSE [ok |-> ~(field(2) = <<>> \/ field(1) = <<>>),
              sequenceKey |-> to_string(index), imagePath |-> field(1),
              classId |-> field(2)]

\* A container that is opened again for every sequence.
IsNewContainerAlways(known, containerPath) == TRUE

\* "if (r == knownReaders.end())", r being knownReaders.find(containerPath)
IsNewContainer(known, containerPath) == containerPath \notin DOMAIN known

\* A container path that is silently left to the default reader.
WithoutZipSupportIgnored(b) == b

\* The branch compiled without USE_ZIP.
WithoutZipSupport(b) == Throw(b, "UnsupportedFormat")

\* RegisterByteReader(seqId, path, knownReaders, readerSequences).  The paths
\* of the model meet its asserts: the '@' is neither the first nor the last
\* character.
RegisterByteReader(b, seqId, path) ==
    LET atPos == FindFirstOf(path, "@")
    IN  IF atPos = 0 THEN b
        ELSE IF ~useZip THEN WithoutZipSupport(b)
        ELSE
          LET containerPath == ContainerPathOf(path, atPos)
              itemPath == ItemPathOf(path, atPos)
              isNew == IsNewContainer(b.knownReaders, containerPath)
              hs == IF isNew THEN Append(b.handles, containerPath) ELSE b.handles
              reader == IF isNew THEN Len(hs) ELSE b.knownReaders[containerPath]
              known == IF isNew THEN Put(b.knownReaders, containerPath, reader)
                       ELSE b.knownReaders
              rs == IF isNew THEN Put(b.readerSequences, containerPath, EmptyMap)
                    ELSE b.readerSequences
          IN  [b EXCEPT !.handles = hs,
                        !.knownReaders = known,
                        !.readerSequences =
                            Put(rs, containerPath, Put(rs[containerPath], itemPath, seqId)),
                        !.m_readers = Put(b.m_readers, seqId, reader)]

\* A chunk closed one sample early.
ChunkIsFullAtLimit(chunk) == chunk.m_numberOfSamples >= ChunkSampleLimit

\* "if (currentChunk->m_numberOfSamples > 511)"
ChunkIsFull(chunk) == chunk.m_numberOfSamples > ChunkSampleLimit

\* A new chunk that keeps the start index of the chunk before it.
StartNewChunkKeepingStart(b) ==
    IF ChunkIsFull(b.currentChunk)
    THEN [b EXCEPT !.m_chunks = Append(b.m_chunks, b.currentChunk),
                   !.currentChunkId = b.currentChunkId + 1,
                   !.currentChunk =
                       [m_id |-> b.currentChunkId + 1, m_numberOfSamples |-> 0,
                        m_numberOfSequences |-> 0,
                        m_startIndex |-> b.currentChunk.m_startIndex]]
    ELSE b

\* Creating new chunk if necessary.
StartNewChunkIfFull(b) ==
    IF ChunkIsFull(b.currentChunk)
    THEN LET id == IF b.currentChunkId = chunkIdMax THEN 0
                   ELSE b.currentChunkId + 1
         IN  [b EXCEPT !.m_chunks = Append(b.m_chunks, b.currentChunk),
                       !.currentChunkId = id,
                       !.currentChunk =
                           [m_id |-> id, m_numberOfSamples |-> 0,
                            m_numberOfSequences |-> 0,
                            m_startIndex |-> Len(b.m_imageSequences)]]
    ELSE b

\* A key map that keeps the first index of a key (insert, not operator[]).
SetKeyToSequenceIfAbsent(keyToSequence, keyId, index) ==
    IF keyId \in DOMAIN keyToSequence THEN keyToSequence
    ELSE Put(keyToSequence, keyId, index)

\* "m_keyToSequence[description.m_key.m_sequence] = m_imageSequences.size();"
SetKeyToSequence(keyToSequence, keyId, index) == Put(keyToSequence, keyId, index)

\* One pass of the loop "for (size_t start = curId; curId < start + itemsPerLine; curId++)".
AddSequence(b, imagePath, cid, sequenceKey) ==
    LET reg == RegistryIntern(b.stringRegistry, sequenceKey)
        description ==
            [m_id |-> b.curId, m_numberOfSamples |-> 1,
             m_chunkId |-> b.currentChunkId, m_path |-> imagePath,
             m_classId |-> cid,
             m_key |-> [m_sequence |-> RegistryId(reg, sequenceKey), m_sample |-> 0]]
        pushed ==
            [b EXCEPT !.stringRegistry = reg,
                      !.m_keyToSequence =
                          SetKeyToSequence(b.m_keyToSequence,
                                           description.m_key.m_sequence,
                                           Len(b.m_imageSequences)),
                      !.m_imageSequences = Append(b.m_imageSequences, description),
                      !.currentChunk.m_numberOfSamples = @ + 1,
                      !.currentChunk.m_numberOfSequences = @ + 1]
        done == RegisterByteReader(pushed, description.m_id, description.m_path)
    IN  IF done.pc = "failed" THEN done ELSE [done EXCEPT !.curId = @ + 1]

RECURSIVE AddSequences(_, _, _, _, _)
AddSequences(b, n, imagePath, cid, sequenceKey) ==
    IF n = 0 \/ b.pc = "failed" THEN b
    ELSE AddSequences(AddSequence(b, imagePath, cid, sequenceKey), n - 1,
                      imagePath, cid, sequenceKey)

\* Multi-view asked for and not honoured.
ItemsPerLineSingle(multiCrop) == 1

\* "size_t itemsPerLine = isMultiCrop ? 10 : 1;"
ItemsPerLine(multiCrop) == IF multiCrop THEN MultiViewItems ELSE 1

\* The id space checked for one more sequence, whatever the line adds.
ExceedsChunkIdMaxByOne(id, itemsPerLine) == chunkIdMax < id + 1

\* "if (CHUNKID_MAX < curId + itemsPerLine)"
ExceedsChunkIdMax(id, itemsPerLine) == chunkIdMax < id + itemsPerLine

\* The loop body with the class id examined before the corpus is asked.
ProcessLineClassFirst(b, line) ==
    LET p == ParseLine(line, b.lineIndex)
        r == StrToULL(p.classId)
        itemsPerLine == ItemsPerLine(isMultiCrop)
    IN  IF ~p.ok THEN Throw(b, "FormatError")
        ELSE IF r.eptr = 0 \/ r.erange THEN Throw(b, "FormatError")
        ELSE IF r.value >= labelDimension THEN Throw(b, "FormatError")
        ELSE IF ~IsIncluded(ctor, p.sequenceKey)
        THEN [b EXCEPT !.lineIndex = @ + 1]
        ELSE IF ExceedsChunkIdMax(b.curId, itemsPerLine)
        THEN Throw(b, "ResourceExhausted")
        ELSE LET a == AddSequences(StartNewChunkIfFull(b), itemsPerLine,
                                   p.imagePath, r.value, p.sequenceKey)
             IN  IF a.pc = "failed" THEN a ELSE [a EXCEPT !.lineIndex = @ + 1]

\* The body of the loop over the lines of the mapping file, for one line.
ProcessLine(b, line) ==
    LET p == ParseLine(line, b.lineIndex)
        r == StrToULL(p.classId)
        itemsPerLine == ItemsPerLine(isMultiCrop)
    IN  IF ~p.ok THEN Throw(b, "FormatError")
        ELSE IF ~IsIncluded(ctor, p.sequenceKey)
        THEN [b EXCEPT !.lineIndex = @ + 1]
        ELSE IF r.eptr = 0 \/ r.erange THEN Throw(b, "FormatError")
        ELSE IF r.value >= labelDimension THEN Throw(b, "FormatError")
        ELSE IF ExceedsChunkIdMax(b.curId, itemsPerLine)
        THEN Throw(b, "ResourceExhausted")
        ELSE LET a == AddSequences(StartNewChunkIfFull(b), itemsPerLine,
                                   p.imagePath, r.value, p.sequenceKey)
             IN  IF a.pc = "failed" THEN a ELSE [a EXCEPT !.lineIndex = @ + 1]

\* The build state b becomes the state of the model.
Store(b) ==
    /\ pc' = b.pc
    /\ error' = b.error
    /\ lineIndex' = b.lineIndex
    /\ curId' = b.curId
    /\ currentChunkId' = b.currentChunkId
    /\ currentChunk' = b.currentChunk
    /\ m_chunks' = b.m_chunks
    /\ m_imageSequences' = b.m_imageSequences
    /\ m_keyToSequence' = b.m_keyToSequence
    /\ m_readers' = b.m_readers
    /\ knownReaders' = b.knownReaders
    /\ readerSequences' = b.readerSequences
    /\ handles' = b.handles
    /\ stringRegistry' = b.stringRegistry

\* std::getline(mapFile, line) returns the next line of a mapping file of Spec.
ReadLine ==
    /\ pc = "build"
    /\ lineIndex < MaxLines
    /\ \E line \in MapLines :
         /\ mapFile' = Append(mapFile, line)
         /\ Store(ProcessLine(BuildState, line))
    /\ UNCHANGED <<cfgVars, registered, runVars>>

\* std::getline(mapFile, line) returns the next line of the long mapping file.
ReadBulkLine ==
    /\ pc = "build"
    /\ curId < MaxBulkIds
    /\ mapFile' = Append(mapFile, BulkLine(lineIndex))
    /\ Store(ProcessLine(BuildState, BulkLine(lineIndex)))
    /\ UNCHANGED <<cfgVars, registered, runVars>>

\* The container paths of knownReaders, one after the other.
RECURSIVE ReaderOrder(_)
ReaderOrder(paths) ==
    IF paths = {} THEN <<>>
    ELSE LET first == CHOOSE q \in paths : TRUE
         IN  <<first>> \o ReaderOrder(paths \ {first})

\* Register handed a map that was never filled.
RegisterCallsWithoutItems(known, rs) ==
    LET order == ReaderOrder(DOMAIN known)
    IN  [i \in 1..Len(order) |-> [reader |-> known[order[i]], items |-> EmptyMap]]

\* "reader.second->Register(readerSequences[reader.first])" for each reader.
RegisterCalls(known, rs) ==
    LET order == ReaderOrder(DOMAIN known)
    IN  [i \in 1..Len(order) |->
            [reader |-> known[order[i]], items |-> rs[order[i]]]]

\* Adding the last chunk.
FlushLastChunk(chunks, chunk) ==
    IF chunk.m_numberOfSamples > 0 THEN Append(chunks, chunk) ELSE chunks

\* std::getline(mapFile, line) finds the end of the file: the last chunk is
\* added, the containers are registered, and the constructor returns.
FinishBuild ==
    /\ pc = "build"
    /\ m_chunks' = FlushLastChunk(m_chunks, currentChunk)
    /\ registered' = RegisterCalls(knownReaders, readerSequences)
    /\ pc' = "done"
    /\ UNCHANGED <<cfgVars, error, mapFile, lineIndex, curId, currentChunkId,
                   currentChunk, m_imageSequences, m_keyToSequence, m_readers,
                   knownReaders, readerSequences, handles, stringRegistry, runVars>>


\* ------------------------------------------- reading and materializing
\* m_defaultReader, the FileByteReader, as a handle.
DefaultReader == 0

\* FileByteReader::Read(size_t, const std::string& path): the file at path,
\* memory-mapped; the sequence id is not used.
FileByteReaderRead(seqId, path) == [reader |-> DefaultReader, seqId |-> -1, path |-> path]

\* ZipByteReader::Read(seqId, path) of the container handle h.
ZipByteReaderRead(h, seqId, path) == [reader |-> h, seqId |-> seqId, path |-> path]

\* ImageDataDeserializer::ReadImage
ReadImage(seqId, path) ==
    IF m_readers = EmptyMap \/ seqId \notin DOMAIN m_readers
    THEN FileByteReaderRead(seqId, path)
    ELSE ZipByteReaderRead(m_readers[seqId], seqId, path)

\* m_readers with an entry made for every id that is looked up, as
\* m_readers[seqId] would make it.
ReadersAfterIndexing(readers, seqIds) ==
    [x \in (DOMAIN readers) \cup seqIds |->
        IF x \in DOMAIN readers THEN readers[x] ELSE DefaultReader]

\* m_readers after ReadImage looked these ids up: "m_readers.find(seqId)"
\* adds nothing.
ReadersAfterReads(readers, seqIds) == readers

\* The loop counter taken for the index of the image.
CurrentImageFromZero(startIndex, i) == i

\* "size_t currentImage = currentChunk.m_startIndex + i;"
CurrentImage(startIndex, i) == startIndex + i

\* The sequences the constructor of ImageChunk reads, in the order of its
\* loop "for (int i = 0; i < currentChunk.m_numberOfSamples; ++i)".
ImageSequencesOf(id) ==
    LET chunk == m_chunks[id + 1]
    IN  [i \in 1..chunk.m_numberOfSamples |->
            m_imageSequences[CurrentImage(chunk.m_startIndex, i - 1) + 1]]

\* The ids handed to ReadImage by the constructor of ImageChunk.
SequenceIdsOf(id) ==
    {ImageSequencesOf(id)[i].m_id : i \in 1..Len(ImageSequencesOf(id))}

\* ImageChunk::ImageChunk(id, parent): reads all sequences of the chunk.
ImageChunk(id) ==
    LET sequences == ImageSequencesOf(id)
    IN  [m_id |-> id,
         m_data |-> [i \in 1..Len(sequences) |->
                        ReadImage(sequences[i].m_id, sequences[i].m_path)]]

\* ImageDataDeserializer::GetChunk
GetChunk ==
    /\ pc = "done"
    /\ \E chunkId \in 0..(Len(m_chunks) - 1) :
         /\ heldChunk' = ImageChunk(chunkId)
         /\ last' = [op |-> "GetChunk", chunkId |-> chunkId]
         /\ m_readers' = ReadersAfterReads(m_readers, SequenceIdsOf(chunkId))
    /\ UNCHANGED <<cfgVars, pc, error, mapFile, lineIndex, curId, currentChunkId,
                   currentChunk, m_chunks, m_imageSequences, m_keyToSequence,
                   knownReaders, readerSequences, handles, registered,
                   stringRegistry, workerVars>>

\* cv::imdecode of a buffer.  The images of the model are the files and
\* container entries named i (8-bit), f (32-bit float), d (64-bit float) and
\* h (16-bit); any other bytes do not decode, and the Mat has no data.
ImDecode(data) ==
    LET name == data.path[Len(data.path)]
    IN  CASE name = "i" -> [data |-> TRUE, depth |-> "CV_8U"]
          [] name = "f" -> [data |-> TRUE, depth |-> "CV_32F"]
          [] name = "d" -> [data |-> TRUE, depth |-> "CV_64F"]
          [] name = "h" -> [data |-> TRUE, depth |-> "CV_16U"]
          [] OTHER      -> [data |-> FALSE, depth |-> "none"]

\* The element type GetSequence reports for a decoded image of this depth.
ConvertElementType(depth, featureElementType) ==
    CASE depth = "CV_32F" -> "tfloat"
      [] depth = "CV_64F" -> "tdouble"
      [] depth = "CV_8U"  -> "tuchar"
      [] OTHER            -> featureElementType

\* The depth of the buffer GetSequence exposes.
ConvertDepth(depth, featureElementType) ==
    IF depth \in {"CV_32F", "CV_64F", "CV_8U"} THEN depth
    ELSE IF featureElementType = "tfloat" THEN "CV_32F" ELSE "CV_64F"

\* iota that starts at 1.
LabelIndicesFromOne(dimension) == [i \in 1..dimension |-> i]

\* TypedLabelGenerator: m_indices after iota(m_indices.begin(), m_indices.end(), 0)
LabelIndices(dimension) == [i \in 1..dimension |-> i - 1]

\* TypedLabelGenerator::CreateLabelFor(classId, data); m_data and m_indices
\* point at m_value (1) and at m_indices[classId].
CreateLabelFor(classId) ==
    [m_nnzCounts |-> <<1>>, m_totalNnzCount |-> 1, m_data |-> 1,
     m_indices |-> LabelIndices(labelDimension)[classId + 1]]

\* The class id GetSequence hands to the label generator.
LabelClassOf(imageSequence) == imageSequence.m_classId

\* An image taken as it comes, decoded or not.
CannotOpenNever(cvImage) == FALSE

\* "if (!cvImage.data)"
CannotOpen(cvImage) == ~cvImage.data

\* ImageChunk::GetSequence(sequenceId, result): what is pushed to result, or
\* the RuntimeError of an image that does not decode.
ChunkGetSequence(chunkObj, sequenceId) ==
    LET chunk == m_chunks[chunkObj.m_id + 1]
        index == sequenceId - chunk.m_startIndex
        imageSequence == m_imageSequences[sequenceId + 1]
        data == chunkObj.m_data[index + 1]
        cvImage == ImDecode(data)
    IN  IF CannotOpen(cvImage)
        THEN [ok |-> FALSE, error |-> "DecodeError", result |-> <<>>]
        ELSE [ok |-> TRUE, error |-> NoError,
              result |->
                << [m_id |-> imageSequence.m_id, m_numberOfSamples |-> 1,
                    m_chunk |-> chunkObj.m_id, m_buffer |-> data,
                    m_depth |-> ConvertDepth(cvImage.depth, m_featureElementType),
                    m_elementType |->
                        ConvertElementType(cvImage.depth, m_featureElementType)],
                   [m_chunk |-> chunkObj.m_id,
                    label |-> CreateLabelFor(LabelClassOf(imageSequence)),
                    m_numberOfSamples |-> 1,
                    m_elementType |-> m_labelElementType] >>]

\* GetSequence on the chunk the caller holds, for a sequence of that chunk.
GetSequence ==
    /\ pc = "done"
    /\ heldChunk # NoChunk
    /\ LET chunk == m_chunks[heldChunk.m_id + 1]
       IN  \E sequenceId \in chunk.m_startIndex ..
                             (chunk.m_startIndex + chunk.m_numberOfSequences - 1) :
             last' = [op |-> "GetSequence", sequenceId |-> sequenceId,
                      out |-> ChunkGetSequence(heldChunk, sequenceId)]
    /\ UNCHANGED <<cfgVars, buildVars, heldChunk, workerVars>>

\* The SequenceDescription part of an ImageSequenceDescription.
Slice(d) ==
    [m_id |-> d.m_id, m_numberOfSamples |-> d.m_numberOfSamples,
     m_chunkId |-> d.m_chunkId, m_key |-> d.m_key]

\* What the caller's result holds before GetSequenceDescriptionByKey.
NoDescription ==
    [m_id |-> -1, m_numberOfSamples |-> -1, m_chunkId |-> -1,
     m_key |-> [m_sequence |-> -1, m_sample |-> -1]]

\* ImageDataDeserializer::GetSequenceDescriptionByKey(key, result): the value
\* returned and the caller's result afterwards.
SequenceDescriptionByKey(key, result) ==
    IF key.m_sample # 0 \/ key.m_sequence \notin DOMAIN m_keyToSequence
    THEN [found |-> FALSE, result |-> result]
    ELSE [found |-> TRUE,
          result |-> Slice(m_imageSequences[m_keyToSequence[key.m_sequence] + 1])]

\* A lookup, for the ids of the interned keys, one id that was never given
\* out, and the sample indices 0 and 1.
GetSequenceDescriptionByKey ==
    /\ pc = "done"
    /\ \E id \in 0..Len(stringRegistry), sample \in 0..1 :
         LET key == [m_sequence |-> id, m_sample |-> sample]
         IN  last' = [op |-> "GetSequenceDescriptionByKey", key |-> key,
                      out |-> SequenceDescriptionByKey(key, NoDescription)]
    /\ UNCHANGED <<cfgVars, buildVars, heldChunk, workerVars>>

\* ImageDataDeserializer::GetSequencesForChunk(chunkId, result)
SequencesForChunk(chunkId) ==
    LET chunk == m_chunks[chunkId + 1]
    IN  [i \in 1..chunk.m_numberOfSequences |->
            Slice(m_imageSequences[chunk.m_startIndex + i])]

GetSequencesForChunk ==
    /\ pc = "done"
    /\ \E chunkId \in 0..(Len(m_chunks) - 1) :
         last' = [op |-> "GetSequencesForChunk", chunkId |-> chunkId,
                  out |-> SequencesForChunk(chunkId)]
    /\ UNCHANGED <<cfgVars, buildVars, heldChunk, workerVars>>

\* ImageDataDeserializer::GetChunkDescriptions
GetChunkDescriptions ==
    /\ pc = "done"
    /\ last' = [op |-> "GetChunkDescriptions", out |-> m_chunks]
    /\ UNCHANGED <<cfgVars, buildVars, heldChunk, workerVars>>

\* ------------------------------------------------------ specifications
Next ==
    \/ ReadLine
    \/ FinishBuild
    \/ GetChunk
    \/ GetSequence
    \/ GetSequenceDescriptionByKey
    \/ GetSequencesForChunk
    \/ GetChunkDescriptions

\* Mapping files of up to MaxLines lines drawn from MapLines.
Spec == Init /\ [][Next]_vars

NextBulk ==
    \/ ReadBulkLine
    \/ FinishBuild
    \/ GetSequencesForChunk
    \/ GetChunkDescriptions

\* The prefixes of one long mapping file, long enough for chunks to fill.
SpecBulk == Init /\ [][NextBulk]_vars

\* A constructor is called: every constructor, precision and label
\* dimension of the model, in a build whose chunk ids end at SmallChunkIdMax.
InitConfig ==
    /\ ctor \in {"compositional", "legacy"}
    /\ precision \in Precisions
    /\ labelDimension \in {LabelDim, IndexTypeMax + 1}
    /\ isMultiCrop \in BOOLEAN
    /\ useZip \in BOOLEAN
    /\ chunkIdMax = SmallChunkIdMax
    /\ m_labelElementType = "unset"
    /\ m_featureElementType = "unset"
    /\ pc = "ctor"
    /\ EmptyTables

\* The constructor, up to its call of CreateSequenceDescriptions, or to the
\* RuntimeError that ends it.
Construct ==
    /\ pc = "ctor"
    /\ LET c == Constructed(ctor, precision, labelDimension)
       IN  IF c.ok
           THEN /\ pc' = "build"
                /\ error' = NoError
                /\ m_labelElementType' \in c.labelTypes
                /\ m_featureElementType' = c.m_featureElementType
           ELSE /\ pc' = "failed"
                /\ error' = "ConfigError"
                /\ UNCHANGED <<m_labelElementType, m_featureElementType>>
    /\ UNCHANGED <<ctor, isMultiCrop, useZip, labelDimension, precision,
                   chunkIdMax, mapFile, lineIndex, curId, currentChunkId,
                   currentChunk, m_chunks, m_imageSequences, m_keyToSequence,
                   m_readers, knownReaders, readerSequences, handles,
                   registered, stringRegistry, runVars>>

\* std::getline(mapFile, line) returns the next line of the mapping file of
\* SpecConfig; the file ends, or the ids run out, after at most
\* SmallChunkIdMax + 10 lines.
ReadConfigLine ==
    /\ pc = "build"
    /\ mapFile' = Append(mapFile, ConfigLine(lineIndex))
    /\ Store(ProcessLine(BuildState, ConfigLine(lineIndex)))
    /\ UNCHANGED <<cfgVars, registered, runVars>>

NextConfig ==
    \/ Construct
    \/ ReadConfigLine
    \/ FinishBuild
    \/ GetChunk
    \/ GetSequence

\* Every configuration, over the prefixes of one mapping file.
SpecConfig == InitConfig /\ [][NextConfig]_vars


\* ------------------------------------------------------ worker threads
\* The ReadImage calls of the constructor of ImageChunk, in their order.
ImageChunkReads(id) ==
    LET sequences == ImageSequencesOf(id)
    IN  [i \in 1..Len(sequences) |->
            [seqId |-> sequences[i].m_id, path |-> sequences[i].m_path]]

\* std::make_shared<ImageChunk>(chunkId, *this): the object, the calls its
\* constructor made, and the one shared_ptr that owns it.
MakeSharedImageChunk(chunkId) ==
    [m_id |-> chunkId, m_data |-> ImageChunk(chunkId).m_data,
     reads |-> ImageChunkReads(chunkId), refs |-> 1]

\* A shared_ptr to the ImageChunk of worker w is released; the object is
\* destroyed with the last one.
Unref(objects, w) ==
    IF objects[w].refs <= 1 THEN [objects EXCEPT ![w] = NoObject]
    ELSE [objects EXCEPT ![w].refs = @ - 1]

\* The shared_ptr an entry of a result vector holds is released.
UnrefItem(objects, item) ==
    IF item.m_chunk \in Workers THEN Unref(objects, item.m_chunk) ELSE objects

RECURSIVE UnrefItems(_, _)
UnrefItems(objects, items) ==
    IF items = <<>> THEN objects
    ELSE UnrefItems(UnrefItem(objects, Head(items)), Tail(items))

\* A buffer moved out of m_data: the slot is left null.
DataMovedOut(data, index) ==
    [j \in 1..Len(data) |->
        IF j = index + 1
        THEN [reader |-> DefaultReader, seqId |-> -1, path |-> <<"null">>]
        ELSE data[j]]

\* m_data after "auto data = m_data[index];": the shared_ptr is copied.
DataAfterGetSequence(data, index) == data

\* A label that keeps no pointer to its chunk.
LabelChunkNull(w) == "null"

\* "label->m_chunk = shared_from_this();"
LabelChunk(w) == w

\* "image->m_chunk = shared_from_this();"
ImageChunkOf(w) == w

\* What GetSequence of the ImageChunk of worker w pushes to result: the image
\* and the label, each with its shared_ptr to the chunk and, for the record,
\* the sequence id of the call.
Pushed(w, out) ==
    IF out.ok
    THEN << [kind |-> "image", sequenceId |-> out.result[1].m_id,
             m_chunk |-> ImageChunkOf(w), data |-> out.result[1]],
            [kind |-> "label", sequenceId |-> out.result[1].m_id,
             m_chunk |-> LabelChunk(w), data |-> out.result[2]] >>
    ELSE <<>>

\* The shared_ptrs to the ImageChunk of worker w that these entries hold.
RefsTo(w, items) == Cardinality({k \in 1..Len(items) : items[k].m_chunk = w})

\* The sequences a worker asks a chunk for: its first two and its last.
SeqChoices(chunk) ==
    {chunk.m_startIndex, chunk.m_startIndex + 1,
     chunk.m_startIndex + chunk.m_numberOfSequences - 1}
    \cap (chunk.m_startIndex .. (chunk.m_startIndex + chunk.m_numberOfSequences - 1))

\* A worker calls GetChunk; it holds no chunk of an earlier call any more.
WorkerGetChunk(w) ==
    /\ pc = "done"
    /\ ~chunkPtr[w]
    /\ chunkObjects[w] = NoObject
    /\ \E chunkId \in 0..(Len(m_chunks) - 1) :
         /\ chunkObjects' = [chunkObjects EXCEPT ![w] = MakeSharedImageChunk(chunkId)]
         /\ lastCall' = [lastCall EXCEPT ![w] =
                            [op |-> "GetChunk", chunkId |-> chunkId, ok |-> TRUE,
                             error |-> NoError, afterFailure |-> FALSE]]
         /\ m_readers' = ReadersAfterReads(m_readers, SequenceIdsOf(chunkId))
    /\ chunkPtr' = [chunkPtr EXCEPT ![w] = TRUE]
    /\ UNCHANGED <<cfgVars, pc, error, mapFile, lineIndex, curId, currentChunkId,
                   currentChunk, m_chunks, m_imageSequences, m_keyToSequence,
                   knownReaders, readerSequences, handles, registered,
                   stringRegistry, heldChunk, last, results>>

\* A worker calls GetSequence on its chunk, with its result vector.
WorkerGetSequence(w) ==
    /\ pc = "done"
    /\ chunkPtr[w]
    /\ Len(results[w]) + 2 <= MaxResultItems
    /\ LET chunk == m_chunks[chunkObjects[w].m_id + 1]
       IN  \E sequenceId \in SeqChoices(chunk) :
             LET out == ChunkGetSequence(chunkObjects[w], sequenceId)
                 index == sequenceId - chunk.m_startIndex
                 pushed == Pushed(w, out)
             IN  /\ results' = [results EXCEPT ![w] = @ \o pushed]
                 /\ chunkObjects' =
                      [chunkObjects EXCEPT
                          ![w].m_data = DataAfterGetSequence(@, index),
                          ![w].refs = @ + RefsTo(w, pushed)]
                 /\ lastCall' = [lastCall EXCEPT ![w] =
                                    [op |-> "GetSequence", sequenceId |-> sequenceId,
                                     ok |-> out.ok, error |-> out.error,
                                     afterFailure |->
                                         \/ lastCall[w].afterFailure
                                         \/ (lastCall[w].op = "GetSequence"
                                             /\ ~lastCall[w].ok)]]
    /\ UNCHANGED <<cfgVars, buildVars, heldChunk, last, chunkPtr>>

\* A worker lets go of the ChunkPtr GetChunk returned.
ReleaseChunkPtr(w) ==
    /\ chunkPtr[w]
    /\ chunkPtr' = [chunkPtr EXCEPT ![w] = FALSE]
    /\ chunkObjects' = Unref(chunkObjects, w)
    /\ UNCHANGED <<cfgVars, buildVars, heldChunk, last, results, lastCall>>

\* A worker lets go of one entry of its result vector.
ReleaseItem(w) ==
    /\ \E k \in 1..Len(results[w]) :
         /\ results' = [results EXCEPT ![w] =
                           SubSeq(@, 1, k - 1) \o SubSeq(@, k + 1, Len(@))]
         /\ chunkObjects' = UnrefItem(chunkObjects, results[w][k])
    /\ UNCHANGED <<cfgVars, buildVars, heldChunk, last, chunkPtr, lastCall>>

\* result.clear(): a worker lets go of all entries of its result vector.
ClearResult(w) ==
    /\ results[w] # <<>>
    /\ results' = [results EXCEPT ![w] = <<>>]
    /\ chunkObjects' = UnrefItems(chunkObjects, results[w])
    /\ UNCHANGED <<cfgVars, buildVars, heldChunk, last, chunkPtr, lastCall>>

\* std::getline(mapFile, line) returns the next line of the mapping file of
\* SpecWorkers, which has as many lines as it takes for WorkIds ids.
ReadWorkLine ==
    /\ curId < WorkIds
    /\ ReadBulkLine

FinishWorkFile ==
    /\ curId >= WorkIds
    /\ FinishBuild

\* Two workers on the built object, each with one chunk at a time and a
\* result vector it clears before it calls GetSequence.
NextWorkers ==
    \/ ReadWorkLine
    \/ FinishWorkFile
    \/ \E w \in Workers : WorkerGetChunk(w)
    \/ \E w \in Workers : results[w] = <<>> /\ WorkerGetSequence(w)
    \/ \E w \in Workers : ReleaseChunkPtr(w)
    \/ \E w \in Workers : ClearResult(w)

\* One long mapping file, and the chunks of the built object loaded and used
\* by two workers.
SpecWorkers == Init /\ [][NextWorkers]_vars

\* std::getline(mapFile, line) returns the next line of the mapping file of
\* SpecOwn: the first OwnLines lines of that of SpecConfig.
ReadOwnLine ==
    /\ lineIndex < OwnLines
    /\ ReadConfigLine

FinishOwnFile ==
    /\ lineIndex >= OwnLines
    /\ FinishBuild

\* One worker, its chunk and its result vector, every entry of which it may
\* let go of on its own.
NextOwn ==
    \/ ReadOwnLine
    \/ FinishOwnFile
    \/ WorkerGetChunk("w1")
    \/ WorkerGetSequence("w1")
    \/ ReleaseChunkPtr("w1")
    \/ ReleaseItem("w1")
    \/ ClearResult("w1")

SpecOwn == Init /\ [][NextOwn]_vars

\* std::getline(mapFile, line) returns the next line of the mapping file of
\* SpecThreads: the first ThreadLines lines of that of SpecBulk.
ReadThreadLine ==
    /\ lineIndex < ThreadLines
    /\ ReadBulkLine

FinishThreadFile ==
    /\ lineIndex >= ThreadLines
    /\ FinishBuild

\* Two workers and a caller of the lookups on the object built over a short
\* mapping file.
NextThreads ==
    \/ ReadThreadLine
    \/ FinishThreadFile
    \/ \E w \in Workers : WorkerGetChunk(w)
    \/ \E w \in Workers : results[w] = <<>> /\ WorkerGetSequence(w)
    \/ \E w \in Workers : ReleaseChunkPtr(w)
    \/ \E w \in Workers : ClearResult(w)
    \/ GetSequenceDescriptionByKey
    \/ GetSequencesForChunk
    \/ GetChunkDescriptions

SpecThreads == Init /\ [][NextThreads]_vars


\* ------------------------------------------- the mapping file, as read
\* What a line of the mapping file says, by the format of the file: key,
\* path and class id, or path and class id with the 0-based line number as
\* the key.  n is the 1-based position of the line in mapFile.
LineKey(n) == IF Len(mapFile[n]) >= 3 THEN mapFile[n][1] ELSE to_string(n - 1)

LinePath(n) == IF Len(mapFile[n]) >= 3 THEN mapFile[n][2] ELSE mapFile[n][1]

LineClass(n) == IF Len(mapFile[n]) >= 3 THEN mapFile[n][3] ELSE mapFile[n][2]

\* The lines with at least two columns that the corpus does not leave out.
AcceptedLines ==
    {n \in 1..Len(mapFile) : Len(mapFile[n]) >= 2 /\ IsIncluded(ctor, LineKey(n))}

\* The number of accepted lines before line n.
AcceptedBefore(n) == Cardinality({m \in AcceptedLines : m < n})

\* A class id that is a decimal number, and the number.
IsDecimal(text) == text # <<>> /\ \A i \in 1..Len(text) : IsDigit(text[i])

HasAt(path) == \E i \in 1..Len(path) : path[i] = "@"

\* The total sequence count N.
SequenceCount == Len(m_imageSequences)

\* ------------------------------------------------------------- claims
\* C1: after a successful build the chunk at position k has id k, chunk 0
\* starts at index 0, each chunk starts where the one before it ends, every
\* chunk is non-empty and the last one ends at N, and the sequence at
\* position i has id i and names the chunk whose range holds i; the
\* sequences GetSequencesForChunk returns for a chunk are those of its range.
C1_IndexPartition ==
    pc = "done" =>
      /\ (Len(m_chunks) = 0) <=> (SequenceCount = 0)
      /\ \A k \in 1..Len(m_chunks) :
           /\ m_chunks[k].m_id = k - 1
           /\ m_chunks[k].m_numberOfSequences > 0
           /\ m_chunks[k].m_startIndex =
                IF k = 1 THEN 0
                ELSE m_chunks[k - 1].m_startIndex + m_chunks[k - 1].m_numberOfSequences
           /\ k = Len(m_chunks) =>
                m_chunks[k].m_startIndex + m_chunks[k].m_numberOfSequences = SequenceCount
      /\ \A i \in 1..SequenceCount :
           /\ m_imageSequences[i].m_id = i - 1
           /\ m_imageSequences[i].m_chunkId + 1 \in 1..Len(m_chunks)
           /\ LET chunk == m_chunks[m_imageSequences[i].m_chunkId + 1]
              IN  /\ chunk.m_startIndex <= i - 1
                  /\ i - 1 < chunk.m_startIndex + chunk.m_numberOfSequences
      /\ last.op = "GetSequencesForChunk" =>
           LET chunk == m_chunks[last.chunkId + 1]
           IN  /\ Len(last.out) = chunk.m_numberOfSequences
               /\ \A j \in 1..Len(last.out) :
                    /\ last.out[j].m_id = chunk.m_startIndex + j - 1
                    /\ last.out[j].m_chunkId = last.chunkId

\* A built index of two chunks, over a file with excluded lines, whose second
\* chunk was asked for.
C1_Witness ==
    /\ pc = "done"
    /\ Len(m_chunks) = 2
    /\ Len(mapFile) > Cardinality(AcceptedLines)
    /\ last.op = "GetSequencesForChunk"
    /\ last.chunkId = 1

SequencesOfLine(n) ==
    LET R == IF isMultiCrop THEN 10 ELSE 1
    IN  (R * AcceptedBefore(n) + 1)..(R * AcceptedBefore(n) + R)

\* An accepted line whose class id is no decimal number below labelDimension.
BadClassLine(n) ==
    \/ ~IsDecimal(LineClass(n))
    \/ DecimalValue(LineClass(n)) >= labelDimension

\* C4: a build succeeds only if the class id of every accepted line is a
\* number below labelDimension, and each stored classId is then the number
\* written on the line; an accepted line with a class id that is not a number
\* or is not below labelDimension fails the build with FormatError, and a
\* failed build serves nothing.
C4_ClassIdChecked ==
    /\ pc = "done" =>
         \A n \in AcceptedLines :
           /\ ~BadClassLine(n)
           /\ \A i \in SequencesOfLine(n) :
                m_imageSequences[i].m_classId = DecimalValue(LineClass(n))
    /\ (\E n \in AcceptedLines : BadClassLine(n)) =>
         (pc = "failed" /\ error = "FormatError")
    /\ pc = "failed" => (heldChunk = NoChunk /\ last = Nothing)

\* C4, as the code has it (strtoull and the range test): the
\* class id of an accepted line starts with a digit, the number its leading
\* digits spell is below labelDimension and is the classId stored; a line
\* that spells none, or one not below labelDimension, fails the build.
C4_LeadingDigitsChecked ==
    /\ pc = "done" =>
         \A n \in AcceptedLines :
           LET k == DigitPrefixLen(LineClass(n))
               value == DecimalValue(SubSeq(LineClass(n), 1, k))
           IN  /\ k > 0
               /\ value < labelDimension
               /\ \A i \in SequencesOfLine(n) : m_imageSequences[i].m_classId = value
    /\ (\E n \in AcceptedLines :
          LET k == DigitPrefixLen(LineClass(n))
          IN  k = 0 \/ DecimalValue(SubSeq(LineClass(n), 1, k)) >= labelDimension) =>
         (pc = "failed" /\ error = "FormatError")
    /\ pc = "failed" => (heldChunk = NoChunk /\ last = Nothing)


\* The lookup of the key with the interned id, sample index 0.
LookupId(id) ==
    SequenceDescriptionByKey([m_sequence |-> id, m_sample |-> 0], NoDescription)

\* C5: the label GetSequence returns for a sequence has exactly one non-zero
\* entry, of value 1, at the index that is the sequence's class id, also for
\* the sequence d.id of the chunk d.chunkId of every description d a lookup
\* finds; every class id of a built index is an index of the label generator.
C5_LabelOfLookup ==
    /\ pc = "done" =>
         \A i \in 1..SequenceCount :
           m_imageSequences[i].m_classId + 1 \in DOMAIN LabelIndices(labelDimension)
    /\ (last.op = "GetSequence" /\ last.out.ok) =>
         LET label == last.out.result[2].label
         IN  /\ label.m_nnzCounts = <<1>>
             /\ label.m_totalNnzCount = 1
             /\ label.m_data = 1
             /\ label.m_indices = m_imageSequences[last.sequenceId + 1].m_classId
             /\ label.m_indices < labelDimension
             /\ \A id \in 0..Len(stringRegistry) :
                  LET d == LookupId(id)
                  IN  (d.found /\ d.result.m_chunkId = heldChunk.m_id
                               /\ d.result.m_id = last.sequenceId) =>
                        label.m_indices = m_imageSequences[d.result.m_id + 1].m_classId

\* GetSequence on the chunk and sequence a lookup names, of class 1.
C5_Witness ==
    /\ last.op = "GetSequence"
    /\ last.out.ok
    /\ last.out.result[2].label.m_indices = 1
    /\ \E id \in 0..Len(stringRegistry) :
         /\ LookupId(id).found
         /\ LookupId(id).result.m_chunkId = heldChunk.m_id
         /\ LookupId(id).result.m_id = last.sequenceId

\* The sequences that carry the key with the interned id.
SequencesWithKey(id) ==
    {i \in 1..SequenceCount : m_imageSequences[i].m_key.m_sequence = id}

\* C6: a lookup finds a description exactly if the sample index is 0 and the
\* key is the key of an accepted line; if not, the caller's result is left as
\* it was; if so, the result carries the key and is the description with the
\* largest id among those of that key.
C6_LookupLastWins ==
    last.op = "GetSequenceDescriptionByKey" =>
      LET id == last.key.m_sequence
          known == /\ id < Len(stringRegistry)
                   /\ \E n \in AcceptedLines : LineKey(n) = stringRegistry[id + 1]
      IN  /\ last.out.found <=> (last.key.m_sample = 0 /\ known)
          /\ ~last.out.found => last.out.result = NoDescription
          /\ last.out.found =>
               /\ last.out.result.m_key = [m_sequence |-> id, m_sample |-> 0]
               /\ last.out.result.m_id + 1 \in SequencesWithKey(id)
               /\ \A i \in SequencesWithKey(id) :
                    m_imageSequences[i].m_id <= last.out.result.m_id
               /\ last.out.result = Slice(m_imageSequences[last.out.result.m_id + 1])

\* A lookup of a key that two lines of the mapping file carry.
C6_Witness ==
    /\ last.op = "GetSequenceDescriptionByKey"
    /\ last.out.found
    /\ \E i \in SequencesWithKey(last.key.m_sequence) :
         m_imageSequences[i].m_path #
             m_imageSequences[last.out.result.m_id + 1].m_path


\* ------------------------------------------- container paths, as read
\* The position of the first '@' of a path that has one.
FirstAt(path) == CHOOSE i \in 1..Len(path) :
                     path[i] = "@" /\ \A j \in 1..(i - 1) : path[j] # "@"

\* A path with every '\' written as '/'.
Slashed(s) == [i \in 1..Len(s) |-> IF s[i] = "\\" THEN "/" ELSE s[i]]

\* The part of a container-style path before its first '@'.
ContainerOf(path) == SubSeq(path, 1, FirstAt(path) - 1)

\* Everything after the first '@', and everything after the character that
\* follows it.
AfterAt(path) == SubSeq(path, FirstAt(path) + 1, Len(path))

AfterSeparator(path) == SubSeq(path, FirstAt(path) + 2, Len(path))

\* The sequences (positions in m_imageSequences) that have a reader.
Routed == {i \in 1..SequenceCount : (i - 1) \in DOMAIN m_readers}

\* C7, as claimed: the item path recorded for a sequence of a container is
\* everything after the first '@' of its path, '\' replaced by '/', under
\* the container path that is everything before the '@'.
C7_ItemPathAfterAt ==
    \A i \in Routed :
      LET path == m_imageSequences[i].m_path
      IN  /\ ContainerOf(path) \in DOMAIN readerSequences
          /\ Slashed(AfterAt(path)) \in DOMAIN readerSequences[ContainerOf(path)]

\* C7, amended: the item path recorded is everything after the character
\* that follows the first '@' (the '@' and one separator are skipped), '\'
\* replaced by '/', under the container path before the '@'; z@/s/i and
\* z@\s\i are both recorded as the entry s/i of z.
C7_ItemPathAfterSeparator ==
    \A i \in Routed :
      LET path == m_imageSequences[i].m_path
      IN  /\ HasAt(path)
          /\ ContainerOf(path) \in DOMAIN readerSequences
          /\ Slashed(AfterSeparator(path)) \in DOMAIN readerSequences[ContainerOf(path)]
          /\ handles[m_readers[i - 1]] = ContainerOf(path)
          /\ path \in {PZipFwd, PZipBack} =>
               /\ ContainerOf(path) = <<"z">>
               /\ <<"s", "/", "i">> \in DOMAIN readerSequences[<<"z">>]
               /\ \A item \in DOMAIN readerSequences[<<"z">>] :
                    \A c \in 1..Len(item) : item[c] # "\\"

\* A build that recorded z@/s/i and z@\s\i as the one entry s/i of z.
C7_Witness ==
    /\ pc = "done"
    /\ \E i, j \in Routed :
         /\ m_imageSequences[i].m_path = PZipFwd
         /\ m_imageSequences[j].m_path = PZipBack
    /\ DOMAIN readerSequences[<<"z">>] = {<<"s", "/", "i">>}

\* The container paths of the indexed sequences.
ContainersOfSequences ==
    {ContainerOf(m_imageSequences[i].m_path) :
        i \in {j \in 1..SequenceCount : HasAt(m_imageSequences[j].m_path)}}

\* C8: with container support, a built index routes a sequence to a reader
\* exactly if its path has an '@'; one handle was created per container
\* path, shared by the sequences of the container; a chunk's buffers were
\* read by the handle of their sequence if it has one and by the default
\* reader if not.
C8_Routing ==
    /\ (pc = "done" /\ useZip) =>
         /\ \A i \in 1..SequenceCount :
              (i \in Routed) <=> HasAt(m_imageSequences[i].m_path)
         /\ Len(handles) = Cardinality(ContainersOfSequences)
         /\ \A g, h \in 1..Len(handles) : handles[g] = handles[h] => g = h
         /\ \A i \in Routed :
              /\ m_readers[i - 1] \in 1..Len(handles)
              /\ handles[m_readers[i - 1]] = ContainerOf(m_imageSequences[i].m_path)
    /\ (pc = "done" /\ heldChunk # NoChunk) =>
         LET chunk == m_chunks[heldChunk.m_id + 1]
         IN  /\ Len(heldChunk.m_data) = chunk.m_numberOfSequences
             /\ \A j \in 1..Len(heldChunk.m_data) :
                  LET i == chunk.m_startIndex + j
                  IN  /\ heldChunk.m_data[j].path = m_imageSequences[i].m_path
                      /\ heldChunk.m_data[j].reader =
                           IF HasAt(m_imageSequences[i].m_path) /\ useZip
                           THEN m_readers[i - 1] ELSE DefaultReader

\* A loaded chunk with a buffer of the default reader and one of a container.
C8_Witness ==
    /\ pc = "done"
    /\ useZip
    /\ \E j, k \in 1..Len(heldChunk.m_data) :
         /\ heldChunk.m_data[j].reader = DefaultReader
         /\ heldChunk.m_data[k].reader # DefaultReader

\* C9: no container is registered while lines are read or after a failed
\* build; a finished build registered every container exactly once, with the
\* item paths of the sequences routed to it and no others.
C9_DeferredRegister ==
    /\ pc \in {"build", "failed"} => registered = <<>>
    /\ pc = "done" =>
         /\ Len(registered) = Cardinality(ContainersOfSequences)
         /\ \A c \in ContainersOfSequences :
              Cardinality({k \in 1..Len(registered) :
                              handles[registered[k].reader] = c}) = 1
         /\ \A k \in 1..Len(registered) :
              DOMAIN registered[k].items =
                {Slashed(AfterSeparator(m_imageSequences[i].m_path)) :
                    i \in {j \in Routed : m_readers[j - 1] = registered[k].reader}}

\* A finished build over two containers.
C9_Witness ==
    /\ pc = "done"
    /\ Len(registered) = 2
    /\ registered[1].items # EmptyMap
    /\ registered[2].items # EmptyMap

\* The class id of line n as the build takes it: leading digits that spell a
\* number below labelDimension.
ClassPasses(n) ==
    LET k == DigitPrefixLen(LineClass(n))
    IN  k > 0 /\ DecimalValue(SubSeq(LineClass(n), 1, k)) < labelDimension

\* C10, as claimed: without container support no build fails over a
\* container-style path; UnsupportedFormat is left to the reads.
C10_RaisedAtReadTime ==
    (~useZip /\ pc # "done") => error # "UnsupportedFormat"

\* C10, amended: without container support, an accepted line with a valid
\* class id and a container-style path fails the build with
\* UnsupportedFormat when it is processed; an index that was built has no
\* container-style path and no reader, and its chunks are read by the
\* default reader.
C10_RaisedAtBuildTime ==
    /\ useZip => error # "UnsupportedFormat"
    /\ ~useZip =>
         /\ (\E n \in AcceptedLines : ClassPasses(n) /\ HasAt(LinePath(n))) =>
              (pc = "failed" /\ error = "UnsupportedFormat")
         /\ error = "UnsupportedFormat" =>
              (pc = "failed" /\ HasAt(LinePath(Len(mapFile))))
         /\ pc \in {"build", "done"} =>
              /\ m_readers = EmptyMap
              /\ \A i \in 1..SequenceCount : ~HasAt(m_imageSequences[i].m_path)
         /\ heldChunk # NoChunk =>
              \A j \in 1..Len(heldChunk.m_data) :
                heldChunk.m_data[j].reader = DefaultReader

\* A build without container support that fails on its second line, the
\* first line being indexed.
C10_Witness ==
    /\ ~useZip
    /\ pc = "failed"
    /\ error = "UnsupportedFormat"
    /\ Len(mapFile) = 2
    /\ SequenceCount >= 2


\* ------------------------------------------------- the id space
\* The ids one accepted line takes: 10 in multi-view mode, 1 otherwise.
Replicas == IF isMultiCrop THEN 10 ELSE 1

\* The accepted lines whose class id the build takes.
PassedLines == {n \in AcceptedLines : ClassPasses(n)}

\* The ids generated once the passed line n were indexed.
IdsThrough(n) == Replicas * Cardinality({m \in PassedLines : m <= n})

\* C17: the build fails with ResourceExhausted exactly when a line that
\* would be indexed (accepted, its class id taken) would bring the number of
\* generated ids, all replicas counted, above the largest chunk id; nothing
\* of that line is indexed; a build that goes on or succeeds has at most
\* that many sequences, and every chunk id stored is the position of its
\* chunk, none wrapped.
C17_IdSpace ==
    /\ (error = "ResourceExhausted") <=>
         (\E n \in PassedLines : IdsThrough(n) > chunkIdMax)
    /\ error = "ResourceExhausted" =>
         /\ pc = "failed"
         /\ Len(mapFile) \in PassedLines
         /\ \A n \in PassedLines : n < Len(mapFile) => IdsThrough(n) <= chunkIdMax
         /\ SequenceCount = IdsThrough(Len(mapFile)) - Replicas
         /\ curId = SequenceCount
         /\ DOMAIN m_readers \subseteq 0..(SequenceCount - 1)
    /\ pc \in {"build", "done"} =>
         /\ SequenceCount <= chunkIdMax
         /\ currentChunkId <= chunkIdMax
         /\ \A k \in 1..Len(m_chunks) : m_chunks[k].m_id = k - 1
         /\ \A i \in 1..SequenceCount :
              /\ m_imageSequences[i].m_id = i - 1
              /\ m_imageSequences[i].m_chunkId <= currentChunkId
              /\ m_imageSequences[i].m_chunkId <= chunkIdMax

\* A multi-view build that fails on a line whose first replica has room and
\* whose last has none.
C17_Witness ==
    /\ error = "ResourceExhausted"
    /\ isMultiCrop
    /\ SequenceCount > 0
    /\ SequenceCount + 1 <= chunkIdMax
    /\ SequenceCount + 10 > chunkIdMax


\* --------------------------------------------------- excluded lines
\* The lines of two or three columns whose key the corpus leaves out: under
\* the compositional constructor, those with a key of ExcludedKeys.
ExcludedLines ==
    {n \in 1..Len(mapFile) :
        /\ Len(mapFile[n]) >= 2
        /\ ctor = "compositional"
        /\ LineKey(n) \in ExcludedKeys}

\* The other lines of two or three columns.
KeptLines == {n \in 1..Len(mapFile) : Len(mapFile[n]) >= 2} \ ExcludedLines

\* The key a sequence carries.
KeyOfSequence(i) == stringRegistry[m_imageSequences[i].m_key.m_sequence + 1]

\* C19: a line whose key the corpus leaves out is skipped before its class
\* id is looked at: the build never fails on it, whatever its class id, no
\* sequence carries its key, its key is not interned, it takes no id and its
\* container gets no reader; the key of a line without a key column is the
\* 0-based number of the line among all lines, left-out ones included.
C19_ExcludedSkipped ==
    /\ \A n \in ExcludedLines :
         /\ pc = "failed" => n # Len(mapFile)
         /\ \A k \in 1..Len(stringRegistry) : stringRegistry[k] # LineKey(n)
         /\ \A i \in 1..SequenceCount : KeyOfSequence(i) # LineKey(n)
         /\ (HasAt(LinePath(n))
             /\ \A m \in KeptLines :
                  HasAt(LinePath(m)) =>
                    ContainerOf(LinePath(m)) # ContainerOf(LinePath(n))) =>
              /\ ContainerOf(LinePath(n)) \notin DOMAIN knownReaders
              /\ ContainerOf(LinePath(n)) \notin DOMAIN readerSequences
    /\ pc \in {"build", "done"} =>
         /\ SequenceCount = Replicas * Cardinality(KeptLines)
         /\ curId = SequenceCount
         /\ lineIndex = Len(mapFile)
         /\ Cardinality(DOMAIN m_keyToSequence) =
              Cardinality({LineKey(n) : n \in KeptLines})
         /\ \A n \in KeptLines :
              LET first == Replicas * Cardinality({m \in KeptLines : m < n}) + 1
              IN  \A i \in first..(first + Replicas - 1) :
                    /\ m_imageSequences[i].m_path = LinePath(n)
                    /\ Len(mapFile[n]) = 2 =>
                         /\ IsDecimal(KeyOfSequence(i))
                         /\ DecimalValue(KeyOfSequence(i)) = n - 1

\* A build that skipped lines with a class id that is no number and one
\* that is out of range, and a line of a container nothing else names, and
\* then indexed a line without a key column: the key of that sequence is the
\* line number, not the sequence id.
C19_Witness ==
    /\ pc = "done"
    /\ \E n \in ExcludedLines : ~IsDecimal(LineClass(n))
    /\ \E n \in ExcludedLines :
         IsDecimal(LineClass(n)) /\ DecimalValue(LineClass(n)) >= labelDimension
    /\ \E n \in ExcludedLines : HasAt(LinePath(n))
    /\ knownReaders = EmptyMap
    /\ \E n \in KeptLines :
         /\ Len(mapFile[n]) = 2
         /\ \E m \in ExcludedLines : m < n
         /\ \E i \in 1..SequenceCount :
              /\ IsDecimal(KeyOfSequence(i))
              /\ DecimalValue(KeyOfSequence(i)) = n - 1
              /\ m_imageSequences[i].m_id < n - 1


\* ------------------------------------------------- element types
\* The element type a configured precision stands for.
TypeOfPrecision(p) == IF p = "float" THEN "tfloat" ELSE "tdouble"

\* The pixel depth an element type stands for.
DepthOfType(t) ==
    CASE t = "tfloat" -> "CV_32F"
      [] t = "tdouble" -> "CV_64F"
      [] t = "tuchar" -> "CV_8U"
      [] OTHER -> "none"

\* The pixel depth of the image file at a path.
DepthOfFile(path) ==
    LET name == path[Len(path)]
    IN  CASE name = "i" -> "CV_8U"
          [] name = "f" -> "CV_32F"
          [] name = "d" -> "CV_64F"
          [] OTHER -> "CV_16U"

\* C15: the dense sample of a decoded sequence reports float32, float64 or
\* uint8 for an image of that depth, its buffer unconverted; for any other
\* depth it reports the configured floating type and exposes a buffer
\* converted to it; the reported type is one of the three and is the type of
\* the depth of the exposed buffer.
C15_ElementTypeOfDepth ==
    (last.op = "GetSequence" /\ last.out.ok) =>
      LET image == last.out.result[1]
          depth == DepthOfFile(m_imageSequences[last.sequenceId + 1].m_path)
      IN  /\ depth \in {"CV_32F", "CV_64F", "CV_8U"} =>
               /\ image.m_depth = depth
               /\ DepthOfType(image.m_elementType) = depth
          /\ depth \notin {"CV_32F", "CV_64F", "CV_8U"} =>
               image.m_elementType = TypeOfPrecision(precision)
          /\ image.m_elementType \in {"tfloat", "tdouble", "tuchar"}
          /\ DepthOfType(image.m_elementType) = image.m_depth

\* C15, under the old constructor, which keeps the configured type of the
\* feature stream: there the claim holds as it stands.
C15_LegacyElementType ==
    ctor = "legacy" => C15_ElementTypeOfDepth

\* C18: a precision other than float and double, and a label dimension beyond
\* the index type, end the constructor with ConfigError before a line is
\* read; once the constructor has passed, the label element type is float32
\* or float64 as the precision says, and is the type of every label
\* GetSequence produces.
C18_LabelConfigChecked ==
    /\ (precision \notin {"float", "double"} \/ labelDimension > IndexTypeMax) =>
         /\ pc \in {"ctor", "failed"}
         /\ pc = "failed" => error = "ConfigError"
         /\ mapFile = <<>>
    /\ error = "ConfigError" => (pc = "failed" /\ mapFile = <<>>)
    /\ pc \in {"build", "done"} =>
         m_labelElementType = TypeOfPrecision(precision)
    /\ (last.op = "GetSequence" /\ last.out.ok) =>
         /\ last.out.result[2].m_elementType \in {"tfloat", "tdouble"}
         /\ last.out.result[2].m_elementType = TypeOfPrecision(precision)

\* C18, the part on the label dimension and on the old constructor's
\* precision, which holds: such a configuration ends the constructor with
\* ConfigError before a line is read.
C18_DimensionChecked ==
    /\ (labelDimension > IndexTypeMax
        \/ (ctor = "legacy" /\ precision \notin {"float", "double"})) =>
         /\ pc \in {"ctor", "failed"}
         /\ pc = "failed" => error = "ConfigError"
         /\ mapFile = <<>>
    /\ error = "ConfigError" => (pc = "failed" /\ mapFile = <<>>)


\* ------------------------------------------- what Register was handed
\* C20: after a successful build, the id of every sequence routed to a
\* container handle is the sequence id of an entry of the item map that was
\* handed to Register for that handle.
C20_RoutedIsRegistered ==
    pc = "done" =>
      \A i \in Routed :
        \E k \in 1..Len(registered) :
          /\ registered[k].reader = m_readers[i - 1]
          /\ \E item \in DOMAIN registered[k].items :
               registered[k].items[item] = i - 1

\* C20, as the code has it: the item map handed to Register holds, for each
\* item path, the id of the last sequence routed to that entry, and no other
\* id of that entry.
C20_LastIdRegistered ==
    pc = "done" =>
      \A k \in 1..Len(registered) :
        \A item \in DOMAIN registered[k].items :
          LET ids == {i \in Routed :
                        /\ m_readers[i - 1] = registered[k].reader
                        /\ Slashed(AfterSeparator(m_imageSequences[i].m_path)) = item}
          IN  /\ ids # {}
              /\ registered[k].items[item] + 1 \in ids
              /\ \A i \in ids : i - 1 <= registered[k].items[item]


\* ------------------------------------------------- the built object in use
\* C11: once the build is done, no step of any worker or caller - GetChunk
\* with its reads, GetSequence, GetSequencesForChunk, GetChunkDescriptions,
\* a lookup, a release - changes the sequence table, the chunk table, the
\* key map or the routing table.
C11_TablesFrozen ==
    [][pc = "done" =>
         UNCHANGED <<m_imageSequences, m_chunks, m_keyToSequence, m_readers>>]_vars

\* Both workers hold a chunk read through the routing table, one has asked
\* for a sequence, and a lookup has found a description.
C11_Witness ==
    /\ pc = "done"
    /\ m_readers # EmptyMap
    /\ \A w \in Workers : chunkPtr[w] /\ chunkObjects[w] # NoObject
    /\ \E w \in Workers : results[w] # <<>>
    /\ last.op = "GetSequenceDescriptionByKey"
    /\ last.out.found

\* The reader a built index sends a sequence id to.
ReaderOf(seqId) ==
    IF seqId \in DOMAIN m_readers THEN m_readers[seqId] ELSE DefaultReader

\* C12: the chunk object a GetChunk call made has read each sequence of its
\* chunk's range once, in index order, with the id and path of that
\* sequence, and holds the buffers of those reads in that order, whatever
\* another worker loads meanwhile; what GetSequence pushed for a sequence s
\* carries the id s and the buffer read for s.
C12_ChunkReads ==
    \A w \in Workers :
      chunkObjects[w] # NoObject =>
        LET obj == chunkObjects[w]
            chunk == m_chunks[obj.m_id + 1]
        IN  /\ Len(obj.reads) = chunk.m_numberOfSequences
            /\ Len(obj.m_data) = chunk.m_numberOfSequences
            /\ \A j \in 1..chunk.m_numberOfSequences :
                 LET id == chunk.m_startIndex + j - 1
                 IN  /\ obj.reads[j].seqId = id
                     /\ obj.reads[j].path = m_imageSequences[id + 1].m_path
                     /\ obj.m_data[j].path = m_imageSequences[id + 1].m_path
                     /\ obj.m_data[j].reader = ReaderOf(id)
                     /\ id \in DOMAIN m_readers => obj.m_data[j].seqId = id
            /\ \A k \in 1..Len(results[w]) :
                 results[w][k].kind = "image" =>
                   LET image == results[w][k].data
                       s == results[w][k].sequenceId
                   IN  /\ image.m_id = s
                       /\ image.m_buffer = obj.m_data[s - chunk.m_startIndex + 1]
                       /\ image.m_buffer.path = m_imageSequences[s + 1].m_path
                       /\ image.m_buffer.reader = ReaderOf(s)
                       /\ s \in DOMAIN m_readers => image.m_buffer.seqId = s

\* The two workers hold the chunks 0 and 1, and the one with chunk 1 has asked
\* for a sequence of a container, not the first of the chunk.
C12_Witness ==
    /\ chunkObjects["w1"].m_id = 0
    /\ chunkObjects["w2"].m_id = 1
    /\ results["w2"] # <<>>
    /\ results["w2"][1].sequenceId > m_chunks[2].m_startIndex
    /\ results["w2"][1].sequenceId \in DOMAIN m_readers


\* ------------------------------------------------- chunks and their holders
\* The holders of the ImageChunk of worker w: the ChunkPtr of the worker and
\* the images and labels of its result vector.
Holders(w) == (IF chunkPtr[w] THEN 1 ELSE 0) + Len(results[w])

\* C13: every image and every label GetSequence produced holds a shared
\* pointer to the chunk that produced it, and the image holds the buffer it
\* was decoded from; a chunk exists as long as its ChunkPtr or one of these
\* is held, in whatever order they are released, and is destroyed with the
\* last of them.
C13_ChunkOutlivesHolders ==
    \A w \in Workers :
      /\ chunkPtr[w] => chunkObjects[w] # NoObject
      /\ \A k \in 1..Len(results[w]) :
           LET item == results[w][k]
           IN  /\ item.m_chunk = w
               /\ chunkObjects[w] # NoObject
               /\ item.data.m_chunk = chunkObjects[w].m_id
               /\ item.kind = "image" =>
                    LET chunk == m_chunks[chunkObjects[w].m_id + 1]
                    IN  item.data.m_buffer =
                          chunkObjects[w].m_data[item.sequenceId - chunk.m_startIndex + 1]
      /\ (chunkObjects[w] # NoObject) <=> (Holders(w) > 0)
      /\ chunkObjects[w].refs = Holders(w)

\* The ChunkPtr and the image were released, the label is the last holder,
\* and the chunk is still there.
C13_Witness ==
    /\ ~chunkPtr["w1"]
    /\ Len(results["w1"]) = 1
    /\ results["w1"][1].kind = "label"
    /\ chunkObjects["w1"] # NoObject
    /\ chunkObjects["w1"].refs = 1

\* C14: GetSequence leaves the buffers of the chunk as they were read, and
\* what it pushes for a sequence is the same every time: any two images, and
\* any two labels, pushed for one sequence of a chunk are equal, with calls
\* for other sequences in between or not.
C14_GetSequenceIdempotent ==
    \A w \in Workers :
      /\ chunkObjects[w] # NoObject =>
           /\ chunkObjects[w].m_data = ImageChunk(chunkObjects[w].m_id).m_data
           /\ chunkObjects[w].reads = ImageChunkReads(chunkObjects[w].m_id)
      /\ \A j, k \in 1..Len(results[w]) :
           (/\ results[w][j].kind = results[w][k].kind
            /\ results[w][j].sequenceId = results[w][k].sequenceId) =>
             results[w][j] = results[w][k]

\* A result vector with two images of one sequence and, pushed between
\* them, the image of another.
C14_Witness ==
    \E j, k, l \in 1..Len(results["w1"]) :
      /\ j < k /\ k < l
      /\ results["w1"][j].kind = "image"
      /\ results["w1"][k].kind = "image"
      /\ results["w1"][l].kind = "image"
      /\ results["w1"][j].sequenceId = results["w1"][l].sequenceId
      /\ results["w1"][k].sequenceId # results["w1"][j].sequenceId

\* The sequence with this id is an image file that decodes.
Decodable(sequenceId) ==
    LET path == m_imageSequences[sequenceId + 1].m_path
    IN  path[Len(path)] \in {"i", "f", "d", "h"}

\* C16: GetSequence fails, with DecodeError, exactly for a sequence whose
\* bytes are no image; the failing call pushes nothing to the result vector
\* and leaves the chunk, its buffers, its reads and the tables as they were
\* (nothing is read again); the calls for the other sequences of the chunk
\* succeed, before it and after it.
C16_DecodeFailureIsLocal ==
    /\ [](\A w \in Workers :
            lastCall[w].op = "GetSequence" =>
              /\ lastCall[w].ok <=> Decodable(lastCall[w].sequenceId)
              /\ ~lastCall[w].ok => lastCall[w].error = "DecodeError"
              /\ lastCall[w].ok => lastCall[w].error = NoError)
    /\ [][\A w \in Workers :
            (/\ lastCall'[w] # lastCall[w]
             /\ lastCall'[w].op = "GetSequence"
             /\ ~lastCall'[w].ok) =>
              /\ results' = results
              /\ chunkObjects' = chunkObjects
              /\ chunkPtr' = chunkPtr
              /\ UNCHANGED <<cfgVars, buildVars, heldChunk, last>>]_vars

\* A call that succeeded after a call on the same chunk failed; the result
\* vector holds what the calls for two of its sequences pushed.
C16_Witness ==
    /\ lastCall["w1"].op = "GetSequence"
    /\ lastCall["w1"].ok
    /\ lastCall["w1"].afterFailure
    /\ Len(results["w1"]) = 4
    /\ results["w1"][1].sequenceId # results["w1"][3].sequenceId

====
